---- MODULE Spec2Model ----
(***************************************************************************)
(* CCueDocument (xbmc/CueDocument.cpp): the CUE sheet parser.              *)
(*                                                                         *)
(* Text is a sequence of one-character strings, so that the prefix         *)
(* dispatch of Parse and the extractors work on the characters of a line   *)
(* as the code does.  A document object is parsed repeatedly; a parse is   *)
(* the loop of CCueDocument::Parse, one line per step.                     *)
(***************************************************************************)
EXTENDS Integers, Sequences, FiniteSets, TLC

(***************************************************************************)
(* Bounds of the model.                                                    *)
(***************************************************************************)
\* longest input, in lines, of a reader that may deliver any line
MaxLines == 4
\* most ':'-separated components of a generated timecode
MaxParts == 4

(***************************************************************************)
(* Characters and the string helpers the parser calls.                     *)
(***************************************************************************)
Digits == <<"0", "1", "2", "3", "4", "5", "6", "7", "8", "9">>

isasciidigit(c) == \E i \in 1..10 : Digits[i] = c

DigitValue(c) == (CHOOSE i \in 1..10 : Digits[i] = c) - 1

IsSpace(c) == c \in {" ", "\t", "\n", "\r"}

Upper == <<"A", "B", "C", "D", "E", "F", "G", "H", "I", "J", "K", "L", "M",
           "N", "O", "P", "Q", "R", "S", "T", "U", "V", "W", "X", "Y", "Z">>

Lower == <<"a", "b", "c", "d", "e", "f", "g", "h", "i", "j", "k", "l", "m",
           "n", "o", "p", "q", "r", "s", "t", "u", "v", "w", "x", "y", "z">>

ToLower(c) ==
    IF \E i \in 1..26 : Upper[i] = c
    THEN Lower[CHOOSE i \in 1..26 : Upper[i] = c]
    ELSE c

StartsWithNoCase(s, p) ==
    /\ Len(s) >= Len(p)
    /\ \A i \in 1..Len(p) : ToLower(s[i]) = ToLower(p[i])

\* std::string::substr(pos): the characters from position pos (0-based) on
substr(s, pos) == SubSeq(s, pos + 1, Len(s))

RECURSIVE TrimLeft(_)
TrimLeft(s) ==
    IF s # <<>> /\ IsSpace(Head(s)) THEN TrimLeft(Tail(s)) ELSE s

RECURSIVE TrimRight(_)
TrimRight(s) ==
    IF s # <<>> /\ IsSpace(s[Len(s)])
    THEN TrimRight(SubSeq(s, 1, Len(s) - 1))
    ELSE s

Trim(s) == TrimRight(TrimLeft(s))

\* std::string::find(ch, from): 0-based position of the first ch at or after
\* from, or -1 (npos)
Find(s, ch, from) ==
    IF \E i \in (from + 1)..Len(s) : s[i] = ch
    THEN (CHOOSE i \in (from + 1)..Len(s) :
              /\ s[i] = ch
              /\ \A j \in (from + 1)..(i - 1) : s[j] # ch) - 1
    ELSE -1

\* std::string::find(str, from): 0-based position of the first occurrence of
\* the string d at or after from, or -1 (npos)
FindStr(s, d, from) ==
    LET at(i) == /\ i + Len(d) - 1 <= Len(s)
                 /\ \A k \in 1..Len(d) : s[i + k - 1] = d[k]
    IN  IF \E i \in (from + 1)..Len(s) : at(i)
        THEN (CHOOSE i \in (from + 1)..Len(s) :
                  at(i) /\ \A j \in (from + 1)..(i - 1) : ~at(j)) - 1
        ELSE -1

\* StringUtils::Split(input, delimiter): the pieces between the delimiters,
\* empty pieces kept; an empty input has no pieces, an empty delimiter does
\* not split
RECURSIVE SplitNonEmpty(_, _)
SplitNonEmpty(s, d) ==
    LET nextDelim == FindStr(s, d, 0)
    IN  IF nextDelim = -1
        THEN <<s>>
        ELSE <<SubSeq(s, 1, nextDelim)>>
                 \o SplitNonEmpty(SubSeq(s, nextDelim + Len(d) + 1, Len(s)), d)

Split(s, d) ==
    IF s = <<>> THEN <<>>
    ELSE IF d = <<>> THEN <<s>>
    ELSE SplitNonEmpty(s, d)

\* the leading run of decimal digits of s, as a number (0 when there is none)
RECURSIVE DigitRun(_, _)
DigitRun(s, acc) ==
    IF s # <<>> /\ isasciidigit(Head(s))
    THEN DigitRun(Tail(s), acc * 10 + DigitValue(Head(s)))
    ELSE acc

\* atoi: leading white space, an optional sign, then the leading digits
atoi(s) ==
    LET t == TrimLeft(s)
    IN  IF t # <<>> /\ Head(t) = "-" THEN 0 - DigitRun(Tail(t), 0)
        ELSE IF t # <<>> /\ Head(t) = "+" THEN DigitRun(Tail(t), 0)
        ELSE DigitRun(t, 0)

\* the quotient of C's int division, which truncates toward zero
CDiv(a, b) == IF a >= 0 THEN a \div b ELSE 0 - ((0 - a) \div b)

\* g_charsetConverter.unknownToUTF8: text that is valid UTF-8 already (the
\* ASCII text of this model) is kept
unknownToUTF8(text) == text

ConvertSecsToMilliSecs(secs) == secs * 1000

\* CUtil::ConvertMilliSecsToSecsIntRounded: to the nearest whole second, a
\* half downwards
ConvertMilliSecsToSecsIntRounded(ms) == (ms + 499) \div 1000

(***************************************************************************)
(* The field extractors.                                                   *)
(***************************************************************************)
ExtractInfo(line) ==
    LET left == Find(line, "\"", 0)
        right == IF left # -1 THEN Find(line, "\"", left + 1) ELSE -1
    IN  IF left # -1 /\ right # -1
        THEN unknownToUTF8(SubSeq(line, left + 2, right))
        ELSE unknownToUTF8(Trim(line))

RECURSIVE EraseDigits(_)
EraseDigits(s) ==
    IF s # <<>> /\ isasciidigit(Head(s)) THEN EraseDigits(Tail(s)) ELSE s

\* ExtractTimeFromIndex, were its test of the split time.size() < 3
ExtractTimeFromIndex_AtLeast3(index) ==
    LET numberTime == TrimLeft(EraseDigits(TrimLeft(substr(index, 5))))
        time == Split(numberTime, <<":">>)
    IN  IF Len(time) < 3
        THEN -1
        ELSE ConvertSecsToMilliSecs(atoi(time[1]) * 60 + atoi(time[2]))
                 + CDiv(atoi(time[3]) * 1000, 75)

ExtractTimeFromIndex(index) ==
    LET numberTime == TrimLeft(EraseDigits(TrimLeft(substr(index, 5))))
        time == Split(numberTime, <<":">>)
    IN  IF Len(time) # 3
        THEN -1
        ELSE LET mins == atoi(time[1])
                 secs == atoi(time[2])
                 frames == atoi(time[3])
             IN  ConvertSecsToMilliSecs(mins * 60 + secs) + CDiv(frames * 1000, 75)

ExtractNumericInfo(info) ==
    LET number == TrimLeft(info)
    IN  IF number = <<>> \/ ~isasciidigit(Head(number))
        THEN -1
        ELSE atoi(number)

(***************************************************************************)
(* URIUtils and the storage under the sheet's directory.                   *)
(***************************************************************************)
\* position (1-based) of the last path separator of path, 0 when none
LastSlash(path) ==
    IF \E i \in 1..Len(path) : path[i] \in {"/", "\\"}
    THEN CHOOSE i \in 1..Len(path) :
             /\ path[i] \in {"/", "\\"}
             /\ \A j \in (i + 1)..Len(path) : path[j] \notin {"/", "\\"}
    ELSE 0

GetDirectory(path) == SubSeq(path, 1, LastSlash(path))

GetFileName(path) == SubSeq(path, LastSlash(path) + 1, Len(path))

AddFileToFolder(folder, file) == folder \o file

\* where the sheet of ParseFile lies
SheetPath == <<"/", "m", "/", "s", ".", "c", "u", "e">>

\* the entries of the sheet's directory
DirectoryItems == <<<<"/", "m", "/", "A">>, <<"/", "m", "/", "b">>>>

FileExists(path) == \E i \in 1..Len(DirectoryItems) : DirectoryItems[i] = path

EqualsNoCase(a, b) ==
    /\ Len(a) = Len(b)
    /\ \A i \in 1..Len(a) : ToLower(a[i]) = ToLower(b[i])

IsPath(item, path) == EqualsNoCase(item, path)

\* ResolvePath, were it to hand back no path for a file it does not find
ResolvePath_ClearsUnfound(strPath, strBase) ==
    LET strDirectory == GetDirectory(strBase)
        strFilename == GetFileName(strPath)
        candidate == AddFileToFolder(strDirectory, strFilename)
        found == \E i \in 1..Len(DirectoryItems) : IsPath(DirectoryItems[i], candidate)
    IN  IF ~FileExists(candidate)
        THEN [path |-> IF found THEN candidate ELSE <<>>, found |-> found]
        ELSE [path |-> candidate, found |-> TRUE]

\* [path |-> the value left in strPath, found |-> the value returned]
ResolvePath(strPath, strBase) ==
    LET strDirectory == GetDirectory(strBase)
        strFilename == GetFileName(strPath)
        candidate == AddFileToFolder(strDirectory, strFilename)
    IN  IF ~FileExists(candidate)
        THEN [path |-> candidate,
              found |-> \E i \in 1..Len(DirectoryItems) :
                            IsPath(DirectoryItems[i], candidate)]
        ELSE [path |-> candidate, found |-> TRUE]

(***************************************************************************)
(* The lines a reader delivers: trimmed and not empty.                     *)
(***************************************************************************)
CueLines == <<
    \*  1  FILE "a" WAVE
    <<"F", "I", "L", "E", " ", "\"", "a", "\"", " ", "W", "A", "V", "E">>,
    \*  2  FILE "b" WAVE
    <<"F", "I", "L", "E", " ", "\"", "b", "\"", " ", "W", "A", "V", "E">>,
    \*  3  FILE "" WAVE
    <<"F", "I", "L", "E", " ", "\"", "\"", " ", "W", "A", "V", "E">>,
    \*  4  TRACK 01 AUDIO
    <<"T", "R", "A", "C", "K", " ", "0", "1", " ", "A", "U", "D", "I", "O">>,
    \*  5  TRACK 00 AUDIO
    <<"T", "R", "A", "C", "K", " ", "0", "0", " ", "A", "U", "D", "I", "O">>,
    \*  6  INDEX 01 04:00:72
    <<"I", "N", "D", "E", "X", " ", "0", "1", " ", "0", "4", ":", "0", "0", ":", "7", "2">>,
    \*  7  INDEX 01 04:00
    <<"I", "N", "D", "E", "X", " ", "0", "1", " ", "0", "4", ":", "0", "0">>,
    \*  8  INDEX 00 03:58:72
    <<"I", "N", "D", "E", "X", " ", "0", "0", " ", "0", "3", ":", "5", "8", ":", "7", "2">>,
    \*  9  PERFORMER "Pink Floyd"
    <<"P", "E", "R", "F", "O", "R", "M", "E", "R", " ", "\"", "P", "i", "n", "k", " ", "F", "l", "o", "y", "d", "\"">>,
    \* 10  TITLE "The Dark Side Of The Moon"
    <<"T", "I", "T", "L", "E", " ", "\"", "T", "h", "e", " ", "D", "a", "r", "k", " ", "S", "i", "d", "e", " ", "O", "f", " ", "T", "h", "e", " ", "M", "o", "o", "n", "\"">>,
    \* 11  FILE "The Dark Side Of The Moon.mp3" WAVE
    <<"F", "I", "L", "E", " ", "\"", "T", "h", "e", " ", "D", "a", "r", "k", " ", "S", "i", "d", "e", " ", "O", "f", " ", "T", "h", "e", " ", "M", "o", "o", "n", ".", "m", "p", "3", "\"", " ", "W", "A", "V", "E">>,
    \* 12  TITLE "Speak To Me / Breathe"
    <<"T", "I", "T", "L", "E", " ", "\"", "S", "p", "e", "a", "k", " ", "T", "o", " ", "M", "e", " ", "/", " ", "B", "r", "e", "a", "t", "h", "e", "\"">>,
    \* 13  INDEX 00 00:00:00
    <<"I", "N", "D", "E", "X", " ", "0", "0", " ", "0", "0", ":", "0", "0", ":", "0", "0">>,
    \* 14  INDEX 01 00:00:32
    <<"I", "N", "D", "E", "X", " ", "0", "1", " ", "0", "0", ":", "0", "0", ":", "3", "2">>,
    \* 15  TRACK 02 AUDIO
    <<"T", "R", "A", "C", "K", " ", "0", "2", " ", "A", "U", "D", "I", "O">>,
    \* 16  TITLE "On The Run"
    <<"T", "I", "T", "L", "E", " ", "\"", "O", "n", " ", "T", "h", "e", " ", "R", "u", "n", "\"">>,
    \* 17  TRACK 03 AUDIO
    <<"T", "R", "A", "C", "K", " ", "0", "3", " ", "A", "U", "D", "I", "O">>,
    \* 18  TITLE "Time"
    <<"T", "I", "T", "L", "E", " ", "\"", "T", "i", "m", "e", "\"">>,
    \* 19  INDEX 00 07:31:70
    <<"I", "N", "D", "E", "X", " ", "0", "0", " ", "0", "7", ":", "3", "1", ":", "7", "0">>,
    \* 20  INDEX 01 07:33:70
    <<"I", "N", "D", "E", "X", " ", "0", "1", " ", "0", "7", ":", "3", "3", ":", "7", "0">>,
    \* 21  REM DISCNUMBER 2
    <<"R", "E", "M", " ", "D", "I", "S", "C", "N", "U", "M", "B", "E", "R", " ", "2">>,
    \* 22  REM DATE 1973
    <<"R", "E", "M", " ", "D", "A", "T", "E", " ", "1", "9", "7", "3">>,
    \* 23  REM GENRE Rock
    <<"R", "E", "M", " ", "G", "E", "N", "R", "E", " ", "R", "o", "c", "k">>,
    \* 24  track 7 audio
    <<"t", "r", "a", "c", "k", " ", "7", " ", "a", "u", "d", "i", "o">>,
    \* 25  TRACK AUDIO
    <<"T", "R", "A", "C", "K", " ", "A", "U", "D", "I", "O">>,
    \* 26  TRACK
    <<"T", "R", "A", "C", "K">>,
    \* 27  TRACK 5abc
    <<"T", "R", "A", "C", "K", " ", "5", "a", "b", "c">>,
    \* 28  INDEX 01 03:58:72
    <<"I", "N", "D", "E", "X", " ", "0", "1", " ", "0", "3", ":", "5", "8", ":", "7", "2">>,
    \* 29  CATALOG 0
    <<"C", "A", "T", "A", "L", "O", "G", " ", "0">>,
    \* 30  REM REPLAYGAIN_TRACK_GAIN -6.5 dB
    <<"R", "E", "M", " ", "R", "E", "P", "L", "A", "Y", "G", "A", "I", "N", "_", "T", "R", "A", "C", "K", "_", "G", "A", "I", "N", " ", "-", "6", ".", "5", " ", "d", "B">>,
    \* 31  INDEX 02 05:00:00
    <<"I", "N", "D", "E", "X", " ", "0", "2", " ", "0", "5", ":", "0", "0", ":", "0", "0">>,
    \* 32  REM REPLAYGAIN_TRACK_PEAK 0.9
    <<"R", "E", "M", " ", "R", "E", "P", "L", "A", "Y", "G", "A", "I", "N", "_", "T", "R", "A", "C", "K", "_", "P", "E", "A", "K", " ", "0", ".", "9">>,
    \* 33  FILE "c" WAVE
    <<"F", "I", "L", "E", " ", "\"", "c", "\"", " ", "W", "A", "V", "E">>,
    \* 34  TITLE Bare
    <<"T", "I", "T", "L", "E", " ", "B", "a", "r", "e">>,
    \* 35  PERFORMER "P"
    <<"P", "E", "R", "F", "O", "R", "M", "E", "R", " ", "\"", "P", "\"">>,
    \* 36  REM REPLAYGAIN_TRACK_PEAK
    <<"R", "E", "M", " ", "R", "E", "P", "L", "A", "Y", "G", "A", "I", "N", "_", "T", "R", "A", "C", "K", "_", "P", "E", "A", "K">>,
    \* 37  INDEX 010 00:00:32
    <<"I", "N", "D", "E", "X", " ", "0", "1", "0", " ", "0", "0", ":", "0", "0", ":", "3", "2">>
>>

NumLines == Len(CueLines)

\* the lines a reader of arbitrary content delivers: FILE, TRACK and
\* INDEX 01 lines
FreeLines == 1..7

\* FILE lines whose file exists, exists in another case, and does not exist
PathLines == {1, 2, 33, 4, 6}

\* TITLE and PERFORMER lines around TRACK lines
TitleLines == {4, 16, 34, 9, 35}

\* lines of the kinds no branch acts on, around TRACK lines
IgnoredLines == {4, 8, 30, 36, 29, 37}

\* the sets of lines a reader of arbitrary content draws from
Alphabets ==
    <<FreeLines, PathLines, TitleLines, IgnoredLines>>

\* the sheet of the file header (CueDocument.cpp, lines 16 to 33)
ExampleSheet ==
    <<9, 10, 11, 4, 12, 9, 13, 14, 15, 16, 9, 8, 6, 17, 18, 9, 19, 20>>

\* two tracks, with a FILE line that names no file before the second
EmptyFileSheet ==
    <<1, 4, 14, 3, 15, 1, 6>>

\* tracks opened before the first FILE line
LateFileSheet ==
    <<4, 15, 1, 6, 21, 22, 23>>

\* TRACK lines in lower case, with a number that is not the position, and without a usable number
UnnumberedSheet ==
    <<1, 24, 14, 25, 6, 26, 20, 27>>

\* one file for each track
FilePerTrackSheet ==
    <<1, 4, 14, 2, 15, 14>>

\* a first track of two seconds
TwoSecondSheet ==
    <<1, 4, 28, 15, 6>>

\* a second track that starts before the first
BackwardsSheet ==
    <<1, 4, 6, 15, 14>>

\* two files, with lines no branch acts on in between
IgnoredSheet ==
    <<29, 30, 1, 4, 13, 14, 2, 31, 29, 15, 8, 32, 6>>

Sheets ==
    <<ExampleSheet, EmptyFileSheet, LateFileSheet, UnnumberedSheet, FilePerTrackSheet, TwoSecondSheet, BackwardsSheet, IgnoredSheet>>

(***************************************************************************)
(* What the lines of the table say, read off their text: for the           *)
(* properties to compare the parser against.                               *)
(***************************************************************************)
\* the number written on a TRACK line, 0 when it carries none
TrackNumberWritten ==
    4 :> 1 @@ 5 :> 0 @@ 15 :> 2 @@ 17 :> 3 @@ 24 :> 7 @@ 25 :> 0 @@ 26 :> 0 @@ 27 :> 5

\* the file a FILE line names
FileNameWritten ==
    1 :> <<"a">>
    @@ 2 :> <<"b">>
    @@ 3 :> <<>>
    @@ 11 :> <<"T", "h", "e", " ", "D", "a", "r", "k", " ", "S", "i", "d", "e", " ", "O", "f", " ", "T", "h", "e", " ", "M", "o", "o", "n", ".", "m", "p", "3">>
    @@ 33 :> <<"c">>

\* the text a TITLE or PERFORMER line carries
TextWritten ==
    9 :> <<"P", "i", "n", "k", " ", "F", "l", "o", "y", "d">>
    @@ 10 :> <<"T", "h", "e", " ", "D", "a", "r", "k", " ", "S", "i", "d", "e", " ", "O", "f", " ", "T", "h", "e", " ", "M", "o", "o", "n">>
    @@ 12 :> <<"S", "p", "e", "a", "k", " ", "T", "o", " ", "M", "e", " ", "/", " ", "B", "r", "e", "a", "t", "h", "e">>
    @@ 16 :> <<"O", "n", " ", "T", "h", "e", " ", "R", "u", "n">>
    @@ 18 :> <<"T", "i", "m", "e">>
    @@ 34 :> <<"B", "a", "r", "e">>
    @@ 35 :> <<"P">>

\* the INDEX 01 lines whose timecode is not MM:SS:FF
MalformedIndexLines == {7}

(***************************************************************************)
(* The document object and the locals of Parse.                            *)
(***************************************************************************)
VARIABLES
    cue,        \* the members of CCueDocument
    parse,      \* the locals of the running (or last) call of Parse
    reader,     \* the CueReader of that call
    consumed,   \* the lines ReadLine has delivered to that call, in order
    pc,         \* "idle" (constructed), "parsing", "done" or "threw"
    ret,        \* the value the last call returned (when pc = "done")
    log,        \* the last message that call logged, "" when none
    parts,      \* the numbers a timecode is written from
    indexLine,  \* the INDEX line given to ExtractTimeFromIndex, <<>> before
    timeOut,    \* the value ExtractTimeFromIndex returned for it
    m_data,     \* BufferReader: the content
    m_pos,      \* BufferReader: the characters read
    calls,      \* the calls of BufferReader::ReadLine so far
    delivered,  \* the lines those calls returned, in order
    atEnd,      \* a call has reported the end of the input
    afterEnd,   \* a call has returned a line after one reported the end
    api,        \* the function last called on the parsed document: "none",
                \* "GetSongs", "LoadTracks", "UpdateMediaFile" or
                \* "GetMediaFiles"
    songs,      \* the list GetSongs appended to
    fileItem,   \* the CFileItem given to LoadTracks, NoItem before the call
    scannedItems, \* the list LoadTracks appended to
    loadRet,    \* the value LoadTracks returned
    updates,    \* the calls of UpdateMediaFile so far
    oldMediaFile, \* the arguments of the last of them
    mediaFile,
    cueBefore,  \* the members of the document before the last of them
    mediaFiles, \* the list GetMediaFiles appended to
    mediaGiven  \* the length of that list before the call

vars == <<cue, parse, reader, consumed, pc, ret, log, parts, indexLine, timeOut,
          m_data, m_pos, calls, delivered, atEnd, afterEnd,
          api, songs, fileItem, scannedItems, loadRet,
          updates, oldMediaFile, mediaFile, cueBefore, mediaFiles, mediaGiven>>

docVars == <<cue, parse, reader, consumed, pc, ret, log>>

timeVars == <<parts, indexLine, timeOut>>

bufVars == <<m_data, m_pos, calls, delivered, atEnd, afterEnd>>

loadVars == <<api, songs, fileItem, scannedItems, loadRet>>

mediaVars == <<updates, oldMediaFile, mediaFile, cueBefore, mediaFiles, mediaGiven>>

NoReplayGain == [gain |-> <<>>, peak |-> <<>>]

\* a default-constructed CCueTrack
NewTrack ==
    [strArtist |-> <<>>, strTitle |-> <<>>, strFile |-> <<>>,
     iTrackNumber |-> 0, iStartTime |-> 0, iEndTime |-> 0,
     replayGain |-> NoReplayGain]

\* a default-constructed CCueDocument
NewDocument ==
    [m_strArtist |-> <<>>, m_strAlbum |-> <<>>, m_strGenre |-> <<>>,
     m_iYear |-> 0, m_iTrack |-> 0, m_iDiscNumber |-> 0,
     m_albumReplayGain |-> NoReplayGain, m_tracks |-> <<>>,
     m_bOneFilePerTrack |-> FALSE]

Clear(c) ==
    [c EXCEPT !.m_strArtist = <<>>, !.m_strAlbum = <<>>, !.m_strGenre = <<>>,
              !.m_iYear = 0, !.m_iTrack = 0, !.m_iDiscNumber = 0,
              !.m_albumReplayGain = NoReplayGain, !.m_tracks = <<>>]

\* the locals of Parse before its loop
ParseLocals(strFile) ==
    [strFile |-> strFile, strCurrentFile |-> <<>>,
     bCurrentFileChanged |-> FALSE, totalTracks |-> -1, numberFiles |-> -1]

IsLoaded == cue.m_tracks # <<>>

IsOneFilePerTrack == cue.m_bOneFilePerTrack

LogCrossFile == "Track split over multiple files, unsupported."
LogMangledTime == "Mangled Time in INDEX 0x tag in CUE file!"
LogNoTracks == "No INDEX 01 tags in CUE file!"
OutOfRange == "std::out_of_range"

\* what the branch of a line leaves: the members, the locals, and the message
\* of the failure that ends the parse ("" when the loop goes on)
Step(c, p) == [cue |-> c, parse |-> p, fail |-> ""]

Fail(c, p, msg) == [cue |-> c, parse |-> p, fail |-> msg]

(***************************************************************************)
(* The branches of the loop of Parse.  m_tracks[k] of the code is          *)
(* m_tracks[k + 1] here.                                                   *)
(***************************************************************************)
\* the INDEX 01 branch, were a mangled time not an error
IndexLine_KeepsMangled(c, p, line) ==
    IF p.bCurrentFileChanged
    THEN Fail(c, p, LogCrossFile)
    ELSE LET time == ExtractTimeFromIndex(line)
             n == p.totalTracks
             ended ==
                 IF n > 0 /\ c.m_tracks[n].strFile = p.strCurrentFile
                 THEN [c.m_tracks EXCEPT ![n].iEndTime = time]
                 ELSE c.m_tracks
             started ==
                 IF n >= 0
                 THEN [ended EXCEPT ![n + 1].iStartTime = time]
                 ELSE ended
         IN  Step([c EXCEPT !.m_tracks = started], p)

\* the INDEX 01 branch, were the end time set on the current track
IndexLine_EndOnCurrent(c, p, line) ==
    IF p.bCurrentFileChanged
    THEN Fail(c, p, LogCrossFile)
    ELSE LET time == ExtractTimeFromIndex(line)
             n == p.totalTracks
             timed ==
                 IF n >= 0
                 THEN [c.m_tracks EXCEPT ![n + 1].iEndTime = time,
                                         ![n + 1].iStartTime = time]
                 ELSE c.m_tracks
         IN  IF time = -1
             THEN Fail(c, p, LogMangledTime)
             ELSE Step([c EXCEPT !.m_tracks = timed], p)

IndexLine(c, p, line) ==
    IF p.bCurrentFileChanged
    THEN Fail(c, p, LogCrossFile)
    ELSE LET time == ExtractTimeFromIndex(line)
             n == p.totalTracks
             ended ==
                 IF n > 0 /\ c.m_tracks[n].strFile = p.strCurrentFile
                 THEN [c.m_tracks EXCEPT ![n].iEndTime = time]
                 ELSE c.m_tracks
             started ==
                 IF n >= 0
                 THEN [ended EXCEPT ![n + 1].iStartTime = time]
                 ELSE ended
         IN  IF time = -1
             THEN Fail(c, p, LogMangledTime)
             ELSE Step([c EXCEPT !.m_tracks = started], p)

\* the TITLE branch, were it to set the album title after a TRACK line too
TitleLine_AlbumToo(c, p, line) ==
    IF p.totalTracks = -1
    THEN Step([c EXCEPT !.m_strAlbum = ExtractInfo(substr(line, 5))], p)
    ELSE Step([c EXCEPT !.m_strAlbum = ExtractInfo(substr(line, 5)),
                        !.m_tracks[p.totalTracks + 1].strTitle =
                            ExtractInfo(substr(line, 5))], p)

TitleLine(c, p, line) ==
    IF p.totalTracks = -1
    THEN Step([c EXCEPT !.m_strAlbum = ExtractInfo(substr(line, 5))], p)
    ELSE Step([c EXCEPT !.m_tracks[p.totalTracks + 1].strTitle =
                            ExtractInfo(substr(line, 5))], p)

PerformerLine(c, p, line) ==
    IF p.totalTracks = -1
    THEN Step([c EXCEPT !.m_strArtist = ExtractInfo(substr(line, 9))], p)
    ELSE Step([c EXCEPT !.m_tracks[p.totalTracks + 1].strArtist =
                            ExtractInfo(substr(line, 9))], p)

\* the TRACK branch, were its test of the number iTrackNumber >= 0
TrackLine_ZeroKept(c, p, line) ==
    LET iTrackNumber == ExtractNumericInfo(substr(line, 5))
        totalTracks == p.totalTracks + 1
        track == [NewTrack EXCEPT
                     !.strFile = p.strCurrentFile,
                     !.iTrackNumber = IF iTrackNumber >= 0
                                      THEN iTrackNumber
                                      ELSE totalTracks + 1]
    IN  Step([c EXCEPT !.m_tracks = Append(c.m_tracks, track)],
             [p EXCEPT !.totalTracks = totalTracks,
                       !.bCurrentFileChanged = FALSE])

TrackLine(c, p, line) ==
    LET iTrackNumber == ExtractNumericInfo(substr(line, 5))
        totalTracks == p.totalTracks + 1
        track == [NewTrack EXCEPT
                     !.strFile = p.strCurrentFile,
                     !.iTrackNumber = IF iTrackNumber > 0
                                      THEN iTrackNumber
                                      ELSE totalTracks + 1]
    IN  Step([c EXCEPT !.m_tracks = Append(c.m_tracks, track)],
             [p EXCEPT !.totalTracks = totalTracks,
                       !.bCurrentFileChanged = FALSE])

DiscNumberLine(c, p, line) ==
    LET iDiscNumber == ExtractNumericInfo(substr(line, 14))
    IN  IF iDiscNumber > 0
        THEN Step([c EXCEPT !.m_iDiscNumber = iDiscNumber], p)
        ELSE Step(c, p)

\* the FILE branch, were every FILE line a change of file
FileLine_AlwaysChanged(c, p, line) ==
    LET name == ExtractInfo(substr(line, 4))
        strCurrentFile ==
            IF p.strFile # <<>> /\ name # <<>>
            THEN ResolvePath(name, p.strFile).path
            ELSE name
    IN  Step(c, [p EXCEPT !.numberFiles = p.numberFiles + 1,
                          !.bCurrentFileChanged = TRUE,
                          !.strCurrentFile = strCurrentFile])

FileLine(c, p, line) ==
    LET name == ExtractInfo(substr(line, 4))
        strCurrentFile ==
            IF p.strFile # <<>> /\ name # <<>>
            THEN ResolvePath(name, p.strFile).path
            ELSE name
    IN  Step(c, [p EXCEPT !.numberFiles = p.numberFiles + 1,
                          !.bCurrentFileChanged =
                              IF p.strCurrentFile # <<>>
                              THEN TRUE
                              ELSE p.bCurrentFileChanged,
                          !.strCurrentFile = strCurrentFile])

DateLine(c, p, line) ==
    LET iYear == ExtractNumericInfo(substr(line, 8))
    IN  IF iYear > 0 THEN Step([c EXCEPT !.m_iYear = iYear], p) ELSE Step(c, p)

GenreLine(c, p, line) ==
    Step([c EXCEPT !.m_strGenre = ExtractInfo(substr(line, 9))], p)

\* the four REM REPLAYGAIN_ branches; substr(26) throws when the line has
\* fewer than 26 characters
AlbumGainLine(c, p, line, field) ==
    IF Len(line) < 26
    THEN Fail(c, p, OutOfRange)
    ELSE Step([c EXCEPT !.m_albumReplayGain[field] = substr(line, 26)], p)

TrackGainLine(c, p, line, field) ==
    IF Len(line) < 26
    THEN Fail(c, p, OutOfRange)
    ELSE Step([c EXCEPT !.m_tracks[p.totalTracks + 1].replayGain[field] =
                            substr(line, 26)], p)

KeyIndex01 == <<"I", "N", "D", "E", "X", " ", "0", "1">>
KeyTitle == <<"T", "I", "T", "L", "E">>
KeyPerformer == <<"P", "E", "R", "F", "O", "R", "M", "E", "R">>
KeyTrack == <<"T", "R", "A", "C", "K">>
KeyDiscNumber == <<"R", "E", "M", " ", "D", "I", "S", "C", "N", "U", "M", "B", "E", "R">>
KeyFile == <<"F", "I", "L", "E">>
KeyDate == <<"R", "E", "M", " ", "D", "A", "T", "E">>
KeyGenre == <<"R", "E", "M", " ", "G", "E", "N", "R", "E">>
KeyAlbumGain == <<"R", "E", "M", " ", "R", "E", "P", "L", "A", "Y", "G", "A", "I", "N", "_", "A", "L", "B", "U", "M", "_", "G", "A", "I", "N">>
KeyAlbumPeak == <<"R", "E", "M", " ", "R", "E", "P", "L", "A", "Y", "G", "A", "I", "N", "_", "A", "L", "B", "U", "M", "_", "P", "E", "A", "K">>
KeyTrackGain == <<"R", "E", "M", " ", "R", "E", "P", "L", "A", "Y", "G", "A", "I", "N", "_", "T", "R", "A", "C", "K", "_", "G", "A", "I", "N">>
KeyTrackPeak == <<"R", "E", "M", " ", "R", "E", "P", "L", "A", "Y", "G", "A", "I", "N", "_", "T", "R", "A", "C", "K", "_", "P", "E", "A", "K">>

\* the chain of branches, were its first to take every INDEX line
Dispatch_AnyIndex(c, p, line) ==
    IF StartsWithNoCase(line, SubSeq(KeyIndex01, 1, 5)) THEN IndexLine(c, p, line)
    ELSE IF StartsWithNoCase(line, KeyTitle) THEN TitleLine(c, p, line)
    ELSE IF StartsWithNoCase(line, KeyPerformer) THEN PerformerLine(c, p, line)
    ELSE IF StartsWithNoCase(line, KeyTrack) THEN TrackLine(c, p, line)
    ELSE IF StartsWithNoCase(line, KeyDiscNumber) THEN DiscNumberLine(c, p, line)
    ELSE IF StartsWithNoCase(line, KeyFile) THEN FileLine(c, p, line)
    ELSE IF StartsWithNoCase(line, KeyDate) THEN DateLine(c, p, line)
    ELSE IF StartsWithNoCase(line, KeyGenre) THEN GenreLine(c, p, line)
    ELSE IF StartsWithNoCase(line, KeyAlbumGain)
         THEN AlbumGainLine(c, p, line, "gain")
    ELSE IF StartsWithNoCase(line, KeyAlbumPeak)
         THEN AlbumGainLine(c, p, line, "peak")
    ELSE IF StartsWithNoCase(line, KeyTrackGain) /\ p.totalTracks >= 0
         THEN TrackGainLine(c, p, line, "gain")
    ELSE IF StartsWithNoCase(line, KeyTrackPeak) /\ p.totalTracks >= 0
         THEN TrackGainLine(c, p, line, "peak")
    ELSE Step(c, p)

\* the if / else-if chain of the loop body
Dispatch(c, p, line) ==
    IF StartsWithNoCase(line, KeyIndex01) THEN IndexLine(c, p, line)
    ELSE IF StartsWithNoCase(line, KeyTitle) THEN TitleLine(c, p, line)
    ELSE IF StartsWithNoCase(line, KeyPerformer) THEN PerformerLine(c, p, line)
    ELSE IF StartsWithNoCase(line, KeyTrack) THEN TrackLine(c, p, line)
    ELSE IF StartsWithNoCase(line, KeyDiscNumber) THEN DiscNumberLine(c, p, line)
    ELSE IF StartsWithNoCase(line, KeyFile) THEN FileLine(c, p, line)
    ELSE IF StartsWithNoCase(line, KeyDate) THEN DateLine(c, p, line)
    ELSE IF StartsWithNoCase(line, KeyGenre) THEN GenreLine(c, p, line)
    ELSE IF StartsWithNoCase(line, KeyAlbumGain)
         THEN AlbumGainLine(c, p, line, "gain")
    ELSE IF StartsWithNoCase(line, KeyAlbumPeak)
         THEN AlbumGainLine(c, p, line, "peak")
    ELSE IF StartsWithNoCase(line, KeyTrackGain) /\ p.totalTracks >= 0
         THEN TrackGainLine(c, p, line, "gain")
    ELSE IF StartsWithNoCase(line, KeyTrackPeak) /\ p.totalTracks >= 0
         THEN TrackGainLine(c, p, line, "peak")
    ELSE Step(c, p)

\* the members after the loop of Parse
Terminate(c, p) ==
    LET closed ==
            IF p.totalTracks >= 0
            THEN [c.m_tracks EXCEPT ![p.totalTracks + 1].iEndTime = 0]
            ELSE c.m_tracks
    IN  [c EXCEPT !.m_iTrack = 0,
                  !.m_tracks = closed,
                  !.m_bOneFilePerTrack =
                      IF p.totalTracks = p.numberFiles
                      THEN TRUE
                      ELSE c.m_bOneFilePerTrack]

(***************************************************************************)
(* GetSongs: the song records of the tracks.                               *)
(***************************************************************************)
\* AdvancedSettings::m_musicItemSeparator
musicItemSeparator == <<" ", "/", " ">>

\* the decimal digits of a natural number
RECURSIVE ToDigits(_)
ToDigits(n) ==
    IF n < 10 THEN <<Digits[n + 1]>> ELSE ToDigits(n \div 10) \o <<Digits[(n % 10) + 1]>>

RECURSIVE PadLeft(_, _, _)
PadLeft(s, width, fill) ==
    IF Len(s) >= width THEN s ELSE PadLeft(<<fill>> \o s, width, fill)

\* StringUtils::Format("{:04}", n) and StringUtils::Format("Track {:2d}", n),
\* for n >= 0
FormatYear(n) == PadLeft(ToDigits(n), 4, "0")

FormatTrackTitle(n) == <<"T", "r", "a", "c", "k", " ">> \o PadLeft(ToDigits(n), 2, " ")

\* a | b for natural numbers
RECURSIVE BitOr(_, _)
BitOr(a, b) ==
    IF a = 0 THEN b
    ELSE IF b = 0 THEN a
    ELSE (IF a % 2 = 1 \/ b % 2 = 1 THEN 1 ELSE 0) + 2 * BitOr(a \div 2, b \div 2)

\* ReplayGain::Info::Valid
Valid(info) == info.gain # <<>> /\ info.peak # <<>>

\* SongOf, were it to time the last track as well
SongOf_AlwaysTimed(c, track) ==
    LET iEndOffset == track.iEndTime
        iStartOffset == track.iStartTime
    IN  [strArtistDesc |-> IF track.strArtist = <<>> /\ c.m_strArtist # <<>>
                           THEN c.m_strArtist
                           ELSE track.strArtist,
         albumArtist |-> Split(c.m_strArtist, musicItemSeparator),
         strAlbum |-> c.m_strAlbum,
         genre |-> Split(c.m_strGenre, musicItemSeparator),
         strReleaseDate |-> FormatYear(c.m_iYear),
         iTrack |-> IF c.m_iDiscNumber > 0
                    THEN BitOr(track.iTrackNumber, c.m_iDiscNumber * 65536)
                    ELSE track.iTrackNumber,
         strTitle |-> IF Len(track.strTitle) = 0
                      THEN FormatTrackTitle(track.iTrackNumber)
                      ELSE track.strTitle,
         strFileName |-> track.strFile,
         iStartOffset |-> iStartOffset,
         iEndOffset |-> iEndOffset,
         iDuration |-> ConvertMilliSecsToSecsIntRounded(iEndOffset - iStartOffset),
         albumGain |-> IF Valid(c.m_albumReplayGain)
                       THEN c.m_albumReplayGain
                       ELSE NoReplayGain,
         trackGain |-> IF Valid(track.replayGain)
                       THEN track.replayGain
                       ELSE NoReplayGain]

SongOf(c, track) ==
    LET iEndOffset == track.iEndTime
        iStartOffset == track.iStartTime
    IN  [strArtistDesc |-> IF track.strArtist = <<>> /\ c.m_strArtist # <<>>
                           THEN c.m_strArtist
                           ELSE track.strArtist,
         albumArtist |-> Split(c.m_strArtist, musicItemSeparator),
         strAlbum |-> c.m_strAlbum,
         genre |-> Split(c.m_strGenre, musicItemSeparator),
         strReleaseDate |-> FormatYear(c.m_iYear),
         iTrack |-> IF c.m_iDiscNumber > 0
                    THEN BitOr(track.iTrackNumber, c.m_iDiscNumber * 65536)
                    ELSE track.iTrackNumber,
         strTitle |-> IF Len(track.strTitle) = 0
                      THEN FormatTrackTitle(track.iTrackNumber)
                      ELSE track.strTitle,
         strFileName |-> track.strFile,
         iStartOffset |-> iStartOffset,
         iEndOffset |-> iEndOffset,
         iDuration |-> IF iEndOffset # 0
                       THEN ConvertMilliSecsToSecsIntRounded(iEndOffset - iStartOffset)
                       ELSE 0,
         albumGain |-> IF Valid(c.m_albumReplayGain)
                       THEN c.m_albumReplayGain
                       ELSE NoReplayGain,
         trackGain |-> IF Valid(track.replayGain)
                       THEN track.replayGain
                       ELSE NoReplayGain]

\* the records GetSongs appends to an empty list
GetSongs(c) == [k \in 1..Len(c.m_tracks) |-> SongOf(c, c.m_tracks[k])]

(***************************************************************************)
(* LoadTracks: the items of the tracks of one file.                        *)
(***************************************************************************)
\* a CMusicInfoTag: with or without album, artist and title, with a total
\* duration in seconds, and with or without the other fields LoadTracks
\* reads
MakeTag(loaded, hasAlbum, hasArtist, hasTitle, duration, hasOthers) ==
    [loaded |-> loaded,
     album |-> IF hasAlbum THEN <<"L">> ELSE <<>>,
     artist |-> IF hasArtist THEN <<<<"S">>>> ELSE <<>>,
     title |-> IF hasTitle THEN <<"T">> ELSE <<>>,
     duration |-> duration,
     albumArtist |-> IF hasOthers THEN <<<<"R">>>> ELSE <<>>,
     genre |-> IF hasOthers THEN <<<<"G">>>> ELSE <<>>,
     artistString |-> IF hasOthers THEN <<"D">> ELSE <<>>,
     discNumber |-> IF hasOthers THEN 2 ELSE 0,
     cueSheet |-> IF hasOthers THEN <<"C">> ELSE <<>>,
     year |-> IF hasOthers THEN 1999 ELSE 0,
     releaseDate |-> IF hasOthers THEN <<"1", "9", "9", "9">> ELSE <<>>,
     coverArt |-> IF hasOthers THEN <<"J">> ELSE <<>>]

\* the total durations a tag reports, in seconds
TagDurations == {0, 300}

Tags ==
    {MakeTag(l, al, ar, ti, du, ot) :
        l \in BOOLEAN, al \in BOOLEAN, ar \in BOOLEAN, ti \in BOOLEAN,
        du \in TagDurations, ot \in BOOLEAN}

\* the paths of the files LoadTracks is asked about: files the sheets name,
\* as ParseFile and as ParseTag store them, and a file no sheet names
ItemPaths ==
    {<<"/", "m", "/", "a">>, <<"/", "m", "/", "b">>, <<"a">>, <<"/", "m", "/", "c">>,
     GetDirectory(SheetPath) \o FileNameWritten[ExampleSheet[3]]}

Items == {[path |-> path, tag |-> tag] : path \in ItemPaths, tag \in Tags}

\* no CFileItem
NoItem == [path |-> <<>>, tag |-> MakeTag(FALSE, FALSE, FALSE, FALSE, 0, FALSE)]

\* a CSong of GetSongs, with the fields that only LoadTracks fills
NewSong(song) == song @@ [strCueSheet |-> <<>>, embeddedArt |-> <<>>]

\* the block of tag.Loaded(), were it to let the tag replace the album of the
\* sheet
MergeTag_ReplacesAlbum(song, tag) ==
    IF tag.loaded
    THEN [song EXCEPT
             !.strAlbum = IF tag.album # <<>> THEN tag.album ELSE @,
             !.albumArtist = IF @ = <<>> /\ tag.albumArtist # <<>>
                             THEN tag.albumArtist ELSE @,
             !.genre = IF @ = <<>> /\ tag.genre # <<>> THEN tag.genre ELSE @,
             !.strArtistDesc = IF @ = <<>> /\ tag.artistString # <<>>
                               THEN tag.artistString ELSE @]
    ELSE song

\* the block of tag.Loaded() (lines 491 to 514)
MergeTag(song, tag) ==
    IF tag.loaded
    THEN [song EXCEPT
             !.strAlbum = IF @ = <<>> /\ tag.album # <<>> THEN tag.album ELSE @,
             !.albumArtist = IF @ = <<>> /\ tag.albumArtist # <<>>
                             THEN tag.albumArtist ELSE @,
             !.genre = IF @ = <<>> /\ tag.genre # <<>> THEN tag.genre ELSE @,
             !.strArtistDesc = IF @ = <<>> /\ tag.artistString # <<>>
                               THEN tag.artistString ELSE @,
             !.iTrack = IF tag.discNumber # 0
                        THEN BitOr(@, tag.discNumber * 65536) ELSE @,
             !.strCueSheet = IF tag.cueSheet # <<>> THEN tag.cueSheet ELSE @,
             !.strReleaseDate = IF tag.year # 0 THEN tag.releaseDate ELSE @,
             !.embeddedArt = IF @ = <<>> /\ tag.coverArt # <<>>
                             THEN tag.coverArt ELSE @]
    ELSE song

\* the duration of the last song, were it taken from the tag alone
MergeDuration_IgnoresStart(song, tag) ==
    IF song.iDuration = 0 /\ tag.duration > 0
    THEN [song EXCEPT !.iDuration =
             ConvertMilliSecsToSecsIntRounded(ConvertSecsToMilliSecs(tag.duration))]
    ELSE song

\* the duration of the last song (lines 517 to 521)
MergeDuration(song, tag) ==
    IF song.iDuration = 0 /\ tag.duration > 0
    THEN [song EXCEPT !.iDuration =
             ConvertMilliSecsToSecsIntRounded(
                 ConvertSecsToMilliSecs(tag.duration) - song.iStartOffset)]
    ELSE song

\* CFileItem(song, tag): the item of the song with the tag as its music info
ItemOfSongAndTag(song, tag) ==
    [path |-> song.strFileName, song |-> song, music |-> "tag", tag |-> tag]

\* CFileItem(song): the item of the song alone
ItemOfSong(song) ==
    [path |-> song.strFileName, song |-> song, music |-> "song", tag |-> NoItem.tag]

\* the item of a song, were a tag that is not loaded trusted as well
BuildItem_TrustsUnloaded(song, tag, oneFilePerTrack) ==
    IF oneFilePerTrack /\ ~(tag.album = <<>> \/ tag.artist = <<>> \/ tag.title = <<>>)
    THEN ItemOfSongAndTag(song, tag)
    ELSE ItemOfSong(song)

\* the item added for a song (lines 522 to 531)
BuildItem(song, tag, oneFilePerTrack) ==
    IF /\ tag.loaded
       /\ oneFilePerTrack
       /\ ~(tag.album = <<>> \/ tag.artist = <<>> \/ tag.title = <<>>)
    THEN ItemOfSongAndTag(song, tag)
    ELSE ItemOfSong(song)

\* the loop of LoadTracks, were it to take the songs of every file
RECURSIVE LoadLoop_EveryFile(_, _, _, _, _)
LoadLoop_EveryFile(tracks, it, oneFilePerTrack, scanned, tracksFound) ==
    IF tracks = <<>>
    THEN [items |-> scanned, ret |-> tracksFound # 0]
    ELSE LoadLoop_EveryFile(Tail(tracks), it, oneFilePerTrack,
             Append(scanned,
                    BuildItem(MergeDuration(MergeTag(NewSong(Head(tracks)), it.tag), it.tag),
                              it.tag, oneFilePerTrack)),
             tracksFound + 1)

\* the loop of LoadTracks over the songs left in `tracks`: the list with the
\* items added and the value returned
RECURSIVE LoadLoop(_, _, _, _, _)
LoadLoop(tracks, it, oneFilePerTrack, scanned, tracksFound) ==
    IF tracks = <<>>
    THEN [items |-> scanned, ret |-> tracksFound # 0]
    ELSE IF Head(tracks).strFileName = it.path
         THEN LoadLoop(Tail(tracks), it, oneFilePerTrack,
                  Append(scanned,
                         BuildItem(MergeDuration(MergeTag(NewSong(Head(tracks)), it.tag),
                                                 it.tag),
                                   it.tag, oneFilePerTrack)),
                  tracksFound + 1)
         ELSE LoadLoop(Tail(tracks), it, oneFilePerTrack, scanned, tracksFound)

(***************************************************************************)
(* UpdateMediaFile and GetMediaFiles.                                      *)
(***************************************************************************)
\* the characters of the codes 32 to 95, in the order of their codes
Printable ==
    <<" ", "!", "\"", "#", "$", "%", "&", "'", "(", ")", "*", "+", ",",
      "-", ".", "/", "0", "1", "2", "3", "4", "5", "6", "7", "8", "9", ":",
      ";", "<", "=", ">", "?", "@", "A", "B", "C", "D", "E", "F", "G", "H",
      "I", "J", "K", "L", "M", "N", "O", "P", "Q", "R", "S", "T", "U", "V",
      "W", "X", "Y", "Z", "[", "\\", "]", "^", "_">>

\* the code of a character: the small letters have the codes from 97 on
CharCode(c) ==
    IF \E i \in 1..26 : Lower[i] = c
    THEN 96 + (CHOOSE i \in 1..26 : Lower[i] = c)
    ELSE 31 + (CHOOSE i \in 1..Len(Printable) : Printable[i] = c)

\* the order of std::set<std::string>: by the codes of the characters at
\* the first place two strings differ, a proper prefix first
LessString(a, b) ==
    LET n == IF Len(a) < Len(b) THEN Len(a) ELSE Len(b)
        D == {i \in 1..n : a[i] # b[i]}
    IN  IF D = {}
        THEN Len(a) < Len(b)
        ELSE LET d == CHOOSE i \in D : \A j \in D : i <= j
             IN  CharCode(a[d]) < CharCode(b[d])

\* the elements of a std::set<std::string>, as iterating over it gives them
RECURSIVE InOrder(_)
InOrder(S) ==
    IF S = {} THEN <<>>
    ELSE LET first == CHOOSE x \in S : \A y \in S \ {x} : LessString(x, y)
         IN  <<first>> \o InOrder(S \ {first})

\* a rewriting that gives the new path to every track
UpdateMediaFile_AllTracks(c, old, new) ==
    [c EXCEPT !.m_tracks =
        [k \in 1..Len(c.m_tracks) |-> [c.m_tracks[k] EXCEPT !.strFile = new]]]

\* the document after UpdateMediaFile(old, new)
UpdateMediaFile(c, old, new) ==
    [c EXCEPT !.m_tracks =
        [k \in 1..Len(c.m_tracks) |->
            IF c.m_tracks[k].strFile = old
            THEN [c.m_tracks[k] EXCEPT !.strFile = new]
            ELSE c.m_tracks[k]]]

\* the list `given` after GetMediaFiles has appended to it
GetMediaFiles(c, given) ==
    LET uniqueFiles == {c.m_tracks[k].strFile : k \in 1..Len(c.m_tracks)}
    IN  given \o InOrder(uniqueFiles)

\* the paths UpdateMediaFile is called with
MediaPaths ==
    {<<"/", "m", "/", "a">>, <<"/", "m", "/", "b">>, <<"a">>, <<"/", "m", "/", "c">>}

\* most calls of UpdateMediaFile on one document
MaxUpdates == 2

(***************************************************************************)
(* The operations.                                                         *)
(***************************************************************************)
\* a constructed document, and nothing given to the functions checked on
\* their own
InitDocument ==
    /\ cue = NewDocument
    /\ parse = ParseLocals(<<>>)
    /\ reader = [ready |-> FALSE, sheet |-> 0, alphabet |-> 1]
    /\ consumed = <<>>
    /\ pc = "idle"
    /\ ret = FALSE
    /\ log = ""
    /\ parts = <<>>
    /\ indexLine = <<>>
    /\ timeOut = 0
    /\ calls = 0
    /\ delivered = <<>>
    /\ atEnd = FALSE
    /\ afterEnd = FALSE
    /\ api = "none"
    /\ songs = <<>>
    /\ fileItem = NoItem
    /\ scannedItems = <<>>
    /\ loadRet = FALSE
    /\ updates = 0
    /\ oldMediaFile = <<>>
    /\ mediaFile = <<>>
    /\ cueBefore = NewDocument
    /\ mediaFiles = <<>>
    /\ mediaGiven = 0

Init ==
    /\ InitDocument
    /\ m_data = <<>>
    /\ m_pos = 0

\* Parse(reader, strFile) up to its loop.  sheet = 0: the reader may deliver
\* any of the lines of Alphabets[alphabet]; sheet > 0: it delivers
\* Sheets[sheet].
Parse(ready, sheet, alphabet, strFile) ==
    /\ pc \in {"idle", "done", "threw"}
    /\ cue' = Clear(cue)
    /\ parse' = ParseLocals(strFile)
    /\ reader' = [ready |-> ready, sheet |-> sheet, alphabet |-> alphabet]
    /\ consumed' = <<>>
    /\ log' = ""
    /\ IF ready
       THEN pc' = "parsing" /\ ret' = FALSE
       ELSE pc' = "done" /\ ret' = FALSE
    /\ UNCHANGED <<timeVars, bufVars, loadVars, mediaVars>>

\* a FileReader is ready when the file could be opened
ParseFile ==
    \/ \E sheet \in 1..Len(Sheets) : Parse(TRUE, sheet, 1, SheetPath)
    \/ \E alphabet \in 1..Len(Alphabets) : Parse(TRUE, 0, alphabet, SheetPath)
    \/ Parse(FALSE, 0, 1, SheetPath)

\* a BufferReader is ready when the content is not empty
ParseTag ==
    \/ \E sheet \in 1..Len(Sheets) : Parse(TRUE, sheet, 1, <<>>)
    \/ \E alphabet \in 1..Len(Alphabets) : Parse(TRUE, 0, alphabet, <<>>)
    \/ Parse(FALSE, 0, 1, <<>>)

\* the lines the reader can deliver next
NextLines ==
    IF reader.sheet = 0
    THEN IF Len(consumed) < MaxLines THEN Alphabets[reader.alphabet] ELSE {}
    ELSE IF Len(consumed) < Len(Sheets[reader.sheet])
         THEN {Sheets[reader.sheet][Len(consumed) + 1]}
         ELSE {}

\* one turn of the loop: ReadLine delivers a line and its branch runs
ReadLine ==
    /\ pc = "parsing"
    /\ \E i \in NextLines :
           LET r == Dispatch(cue, parse, CueLines[i])
           IN  /\ consumed' = Append(consumed, i)
               /\ cue' = r.cue
               /\ parse' = r.parse
               /\ log' = IF r.fail # "" THEN r.fail ELSE log
               /\ pc' = IF r.fail = "" THEN "parsing"
                        ELSE IF r.fail = OutOfRange THEN "threw"
                        ELSE "done"
               /\ ret' = FALSE
    /\ UNCHANGED <<reader, timeVars, bufVars, loadVars, mediaVars>>

\* ReadLine reports the end of the input: the loop ends and Parse returns
EndOfInput ==
    /\ pc = "parsing"
    /\ IF reader.sheet = 0
       THEN TRUE
       ELSE Len(consumed) = Len(Sheets[reader.sheet])
    /\ cue' = Terminate(cue, parse)
    /\ ret' = (parse.totalTracks >= 0)
    /\ log' = IF parse.totalTracks >= 0 THEN log ELSE LogNoTracks
    /\ pc' = "done"
    /\ UNCHANGED <<parse, reader, consumed, timeVars, bufVars, loadVars, mediaVars>>

Next == ParseFile \/ ParseTag \/ ReadLine \/ EndOfInput

Spec == Init /\ [][Next]_vars

(***************************************************************************)
(* GetSongs and LoadTracks on the document of a sheet.  The list a call    *)
(* appends to is empty before it; the document is followed up to the       *)
(* first of these calls.                                                   *)
(***************************************************************************)
ParseSheetFile ==
    /\ api = "none"
    /\ \/ \E sheet \in 1..Len(Sheets) : Parse(TRUE, sheet, 1, SheetPath)
       \/ Parse(FALSE, 0, 1, SheetPath)

ParseSheetTag ==
    /\ api = "none"
    /\ \/ \E sheet \in 1..Len(Sheets) : Parse(TRUE, sheet, 1, <<>>)
       \/ Parse(FALSE, 0, 1, <<>>)

CallGetSongs ==
    /\ pc \in {"idle", "done"}
    /\ api = "none"
    /\ api' = "GetSongs"
    /\ songs' = songs \o GetSongs(cue)
    /\ UNCHANGED <<docVars, timeVars, bufVars, mediaVars, fileItem, scannedItems, loadRet>>

LoadTracks ==
    /\ pc \in {"idle", "done"}
    /\ api = "none"
    /\ api' = "LoadTracks"
    /\ \E it \in Items :
           LET r == LoadLoop(GetSongs(cue), it, IsOneFilePerTrack, scannedItems, 0)
           IN  /\ fileItem' = it
               /\ scannedItems' = r.items
               /\ loadRet' = r.ret
    /\ UNCHANGED <<docVars, timeVars, bufVars, mediaVars, songs>>

NextLoad ==
    ParseSheetFile \/ ParseSheetTag \/ ReadLine \/ EndOfInput \/ CallGetSongs \/ LoadTracks

SpecLoad == Init /\ [][NextLoad]_vars

(***************************************************************************)
(* UpdateMediaFile and GetMediaFiles on the document of a sheet.  The      *)
(* document is followed up to the first of these calls, and from there     *)
(* through the calls of the two.                                           *)
(***************************************************************************)
CallUpdateMediaFile ==
    /\ pc \in {"idle", "done"}
    /\ api \in {"none", "UpdateMediaFile", "GetMediaFiles"}
    /\ updates < MaxUpdates
    /\ \E old \in MediaPaths, new \in MediaPaths :
           /\ cue' = UpdateMediaFile(cue, old, new)
           /\ oldMediaFile' = old
           /\ mediaFile' = new
    /\ cueBefore' = cue
    /\ updates' = updates + 1
    /\ api' = "UpdateMediaFile"
    /\ UNCHANGED <<parse, reader, consumed, pc, ret, log, timeVars, bufVars,
                   songs, fileItem, scannedItems, loadRet, mediaFiles, mediaGiven>>

\* the caller's list is empty, or is the list of an earlier call
CallGetMediaFiles ==
    /\ pc \in {"idle", "done"}
    /\ api \in {"none", "UpdateMediaFile"}
    /\ \E given \in {<<>>, mediaFiles} :
           /\ mediaFiles' = GetMediaFiles(cue, given)
           /\ mediaGiven' = Len(given)
    /\ api' = "GetMediaFiles"
    /\ UNCHANGED <<docVars, timeVars, bufVars, songs, fileItem, scannedItems,
                   loadRet, updates, oldMediaFile, mediaFile, cueBefore>>

NextMedia ==
    \/ ParseSheetFile
    \/ ParseSheetTag
    \/ ReadLine
    \/ EndOfInput
    \/ CallUpdateMediaFile
    \/ CallGetMediaFiles

SpecMedia == Init /\ [][NextMedia]_vars

(***************************************************************************)
(* ExtractTimeFromIndex on the INDEX 01 lines written from numbers.        *)
(***************************************************************************)
\* the numbers a component of a written timecode is taken from
PartValues == {0, 7, 33, 70, 74, -1, -7}

\* a number as a timecode writes it: two digits at least, after the sign
WritePart(n) ==
    IF n < 0
    THEN <<"-">> \o PadLeft(ToDigits(0 - n), 2, "0")
    ELSE PadLeft(ToDigits(n), 2, "0")

RECURSIVE WriteTimecode(_)
WriteTimecode(ps) ==
    IF ps = <<>> THEN <<>>
    ELSE IF Len(ps) = 1 THEN WritePart(ps[1])
    ELSE WritePart(ps[1]) \o <<":">> \o WriteTimecode(Tail(ps))

\* the line as the reader delivers it
WriteIndexLine(ps) == Trim(KeyIndex01 \o <<" ">> \o WriteTimecode(ps))

AddPart ==
    /\ indexLine = <<>>
    /\ Len(parts) < MaxParts
    /\ \E n \in PartValues : parts' = Append(parts, n)
    /\ UNCHANGED <<indexLine, timeOut, docVars, bufVars, loadVars, mediaVars>>

ExtractTime ==
    /\ indexLine = <<>>
    /\ indexLine' = WriteIndexLine(parts)
    /\ timeOut' = ExtractTimeFromIndex(WriteIndexLine(parts))
    /\ UNCHANGED <<parts, docVars, bufVars, loadVars, mediaVars>>

NextTime == AddPart \/ ExtractTime

SpecTime == Init /\ [][NextTime]_vars

(***************************************************************************)
(* BufferReader: the lines of a content read from memory.                  *)
(***************************************************************************)
\* longest content, in characters
MaxData == 5

\* the characters a content is made of
BufferChars == {"a", " ", "\r", "\n"}

\* the contents of at most n characters
RECURSIVE Contents(_)
Contents(n) ==
    IF n = 0
    THEN {<<>>}
    ELSE Contents(n - 1) \cup
         {Append(d, ch) : d \in {e \in Contents(n - 1) : Len(e) = n - 1},
                          ch \in BufferChars}

\* ReadLine, were it to return a line at a line break without trimming it
RECURSIVE ScanLine_Untrimmed(_, _, _)
ScanLine_Untrimmed(data, pos, line) ==
    IF pos < Len(data)
    THEN LET ch == data[pos + 1]
         IN  IF ch = "\r" \/ ch = "\n"
             THEN IF line # <<>>
                  THEN [line |-> line, pos |-> pos + 1, ret |-> TRUE]
                  ELSE ScanLine_Untrimmed(data, pos + 1, line)
             ELSE ScanLine_Untrimmed(data, pos + 1, Append(line, ch))
    ELSE [line |-> Trim(line), pos |-> pos, ret |-> Trim(line) # <<>>]

\* the loop of BufferReader::ReadLine from position pos with `line` read so
\* far, and the statements after it: the line, the position and the value
\* returned
RECURSIVE ScanLine(_, _, _)
ScanLine(data, pos, line) ==
    IF pos < Len(data)
    THEN LET ch == data[pos + 1]
         IN  IF ch = "\r" \/ ch = "\n"
             THEN IF Trim(line) # <<>>
                  THEN [line |-> Trim(line), pos |-> pos + 1, ret |-> TRUE]
                  ELSE ScanLine(data, pos + 1, Trim(line))
             ELSE ScanLine(data, pos + 1, Append(line, ch))
    ELSE [line |-> Trim(line), pos |-> pos, ret |-> Trim(line) # <<>>]

\* BufferReader(strContent)
InitBuffer ==
    /\ InitDocument
    /\ m_data \in Contents(MaxData)
    /\ m_pos = 0

\* a call of BufferReader::ReadLine; the caller may go on calling after the
\* end was reported
BufferReadLine ==
    /\ calls < Len(m_data) + 2
    /\ LET r == ScanLine(m_data, m_pos, <<>>)
       IN  /\ m_pos' = r.pos
           /\ delivered' = IF r.ret THEN Append(delivered, r.line) ELSE delivered
           /\ atEnd' = (atEnd \/ ~r.ret)
           /\ afterEnd' = (afterEnd \/ (atEnd /\ r.ret))
    /\ calls' = calls + 1
    /\ UNCHANGED <<m_data, docVars, timeVars, loadVars, mediaVars>>

NextBuffer == BufferReadLine

SpecBuffer == InitBuffer /\ [][NextBuffer]_vars

(***************************************************************************)
(* The input of the last call, as its lines say it.                        *)
(***************************************************************************)
\* the lines of the table that begin with keyword key, in any letter case
LinesOfKeyword(key) ==
    {i \in 1..Len(CueLines) : StartsWithNoCase(CueLines[i], key)}

FileLineSet == LinesOfKeyword(KeyFile)

TrackLineSet == LinesOfKeyword(KeyTrack)

Index01LineSet == LinesOfKeyword(KeyIndex01)

TitleLineSet == LinesOfKeyword(KeyTitle)

PerformerLineSet == LinesOfKeyword(KeyPerformer)

IsFileLine(i) == i \in FileLineSet

IsTrackLine(i) == i \in TrackLineSet

IsIndex01Line(i) == i \in Index01LineSet

\* the positions of the FILE lines and of the TRACK lines among the first n
\* lines of h
FilePositions(h, n) == {k \in 1..n : IsFileLine(h[k])}

TrackPositions(h, n) == {k \in 1..n : IsTrackLine(h[k])}

NumFileLines(h) == Cardinality(FilePositions(h, Len(h)))

NumTrackLines(h) == Cardinality(TrackPositions(h, Len(h)))

\* the position in h of its k-th TRACK line
TrackLineAt(h, k) ==
    CHOOSE q \in TrackPositions(h, Len(h)) :
        Cardinality(TrackPositions(h, q)) = k

Max(S) == CHOOSE x \in S : \A y \in S : y <= x

\* the path kept for a file named in a sheet: under the sheet's directory
\* when the sheet has a location
StoredName(name) ==
    IF parse.strFile # <<>> /\ name # <<>>
    THEN GetDirectory(parse.strFile) \o name
    ELSE name

\* the file named by the last FILE line among the first n lines of h, the
\* empty text when there is none
FileNamedWithin(h, n) ==
    IF FilePositions(h, n) = {}
    THEN <<>>
    ELSE FileNameWritten[h[Max(FilePositions(h, n))]]

\* among the first n lines of h: a FILE line read while a file was named
\* already, and no TRACK line after it
FileChangePending(h, n) ==
    \E i \in FilePositions(h, n) :
        /\ FileNamedWithin(h, i - 1) # <<>>
        /\ \A j \in (i + 1)..n : ~IsTrackLine(h[j])

\* line k of h is an INDEX 01 line that ends the parse
AbortingIndex(h, k) ==
    /\ IsIndex01Line(h[k])
    /\ FileChangePending(h, k - 1) \/ h[k] \in MalformedIndexLines

Returned == pc = "done"

Succeeded == pc = "done" /\ ret

Failed == pc = "done" /\ ~ret

(***************************************************************************)
(* The properties.                                                         *)
(***************************************************************************)
\* C1: after a call of ParseFile or ParseTag that returned failure, no
\* partly built sheet is to be seen: IsLoaded() is false and GetSongs
\* yields no record.
C1_NoSheetAfterFailure ==
    Failed => ~IsLoaded /\ GetSongs(cue) = <<>>

\* C2: after a successful parse, consecutive tracks bound to the same file
\* meet: the end offset of the first is the start offset of the second.
C2_SameFileTracksMeet ==
    Succeeded =>
        \A n \in 1..(Len(cue.m_tracks) - 1) :
            cue.m_tracks[n].strFile = cue.m_tracks[n + 1].strFile
                => cue.m_tracks[n].iEndTime = cue.m_tracks[n + 1].iStartTime

\* C3: after a successful parse, the end offset of the last track, and of a
\* track whose successor is bound to another file, is 0.
C3_EndZeroAcrossFiles ==
    Succeeded =>
        \A n \in 1..Len(cue.m_tracks) :
            (\/ n = Len(cue.m_tracks)
             \/ cue.m_tracks[n + 1].strFile # cue.m_tracks[n].strFile)
                => cue.m_tracks[n].iEndTime = 0

\* C4: an INDEX 01 line ends the parse as a track split over files exactly
\* when a FILE line was read, while a file was named already, since the last
\* TRACK line (or the start of the input).
C4_CrossFileAbort ==
    \A k \in 1..Len(consumed) :
        IsIndex01Line(consumed[k]) =>
            (FileChangePending(consumed, k - 1)
                <=> /\ k = Len(consumed)
                    /\ Failed
                    /\ log = LogCrossFile)

C4_Witness ==
    /\ Failed
    /\ log = LogCrossFile
    /\ NumTrackLines(consumed) >= 1

\* C5: in a successful parse, every INDEX 01 line that sets the start offset
\* of a track is read while the current file is the file of that track.
C5_TimedAgainstOwnFile ==
    Succeeded =>
        \A k \in 1..Len(consumed) :
            (IsIndex01Line(consumed[k]) /\ TrackPositions(consumed, k) # {})
                => StoredName(FileNamedWithin(consumed, k))
                       = cue.m_tracks[Cardinality(TrackPositions(consumed, k))].strFile

\* C6: after a successful parse, IsOneFilePerTrack() is true exactly when
\* the input had as many FILE lines as TRACK lines.
C6_OneFilePerTrack ==
    Succeeded =>
        (IsOneFilePerTrack <=> NumFileLines(consumed) = NumTrackLines(consumed))

\* C7: Parse returns success exactly when the source is ready, no INDEX 01
\* line ends the parse and a TRACK line was read; on success the tracks are
\* those of the TRACK lines, in their order; without a TRACK line the parse
\* fails and leaves no track.
C7_SuccessAndTracks ==
    Returned =>
        /\ ret <=> /\ reader.ready
                   /\ \A k \in 1..Len(consumed) : ~AbortingIndex(consumed, k)
                   /\ NumTrackLines(consumed) >= 1
        /\ ret =>
              /\ Len(cue.m_tracks) = NumTrackLines(consumed)
              /\ \A k \in 1..Len(cue.m_tracks) :
                     LET w == TrackNumberWritten[consumed[TrackLineAt(consumed, k)]]
                     IN  cue.m_tracks[k].iTrackNumber = IF w > 0 THEN w ELSE k
        /\ NumTrackLines(consumed) = 0 => ~ret /\ cue.m_tracks = <<>>

C7_Witness ==
    /\ Succeeded
    /\ Len(cue.m_tracks) >= 2
    /\ \E k \in 1..Len(consumed) : consumed[k] \notin
           {i \in 1..NumLines : IsTrackLine(i)}

\* C8: the number of a track is positive: the number written on its TRACK
\* line when that is positive, else the position of the track in the list,
\* counted from 1.
C8_TrackNumbers ==
    /\ Len(cue.m_tracks) = NumTrackLines(consumed)
    /\ \A k \in 1..Len(cue.m_tracks) :
           LET w == TrackNumberWritten[consumed[TrackLineAt(consumed, k)]]
           IN  /\ cue.m_tracks[k].iTrackNumber > 0
               /\ w > 0 => cue.m_tracks[k].iTrackNumber = w
               /\ w <= 0 => cue.m_tracks[k].iTrackNumber = k

C8_Witness ==
    /\ \E k \in 1..Len(cue.m_tracks) :
           /\ cue.m_tracks[k].iTrackNumber # k
           /\ TrackNumberWritten[consumed[TrackLineAt(consumed, k)]] > 0
    /\ \E k \in 2..Len(cue.m_tracks) :
           TrackNumberWritten[consumed[TrackLineAt(consumed, k)]] = 0


\* the reader delivers the sheet of the file header
ReadingExample == reader.sheet # 0 /\ Sheets[reader.sheet] = ExampleSheet

StartTimes == [k \in 1..Len(cue.m_tracks) |-> cue.m_tracks[k].iStartTime]

EndTimes == [k \in 1..Len(cue.m_tracks) |-> cue.m_tracks[k].iEndTime]

Extracted == indexLine # <<>>

\* frames * 1000 / 75 rounded toward zero
FramesToMilliSecs(f) ==
    IF f >= 0 THEN (f * 1000) \div 75 ELSE 0 - (((0 - f) * 1000) \div 75)

\* C9 (as claimed): ExtractTimeFromIndex fails exactly when the text after
\* the index number has not three ':'-separated components; for three
\* components it returns minutes*60*1000 + seconds*1000 +
\* floor(frames*1000/75), which is not the failure value when no component
\* is negative; 07:33:70 gives 453933.
C9_TimeAsClaimed ==
    Extracted =>
        /\ timeOut = -1 <=> Len(parts) # 3
        /\ Len(parts) = 3 =>
               timeOut = parts[1] * 60 * 1000 + parts[2] * 1000
                          + ((parts[3] * 1000) \div 75)
        /\ (Len(parts) = 3 /\ \A k \in 1..3 : parts[k] >= 0) => timeOut # -1
        /\ parts = <<7, 33, 70>> => timeOut = 453933

\* C9 (amended): as claimed, with frames*1000/75 rounded toward zero, as the
\* int division of the code rounds it: floor only when frames >= 0.
C9_TimeTruncated ==
    Extracted =>
        /\ timeOut = -1 <=> Len(parts) # 3
        /\ Len(parts) = 3 =>
               timeOut = parts[1] * 60 * 1000 + parts[2] * 1000
                          + FramesToMilliSecs(parts[3])
        /\ (Len(parts) = 3 /\ \A k \in 1..3 : parts[k] >= 0) => timeOut # -1
        /\ parts = <<7, 33, 70>> => timeOut = 453933

C9_Witness ==
    /\ Extracted
    /\ Len(parts) = 3
    /\ parts[3] < 0
    /\ timeOut # -1

\* C10 (as claimed): the sheet of the file header parses to 3 tracks with
\* the start offsets 0, 238960 and 451933 ms and the end offsets 240960,
\* 453933 and 0 ms.
C10_ExampleAsClaimed ==
    (ReadingExample /\ Returned) =>
        /\ ret
        /\ StartTimes = <<0, 238960, 451933>>
        /\ EndTimes = <<240960, 453933, 0>>

\* C10 (amended): the sheet of the file header parses to 3 tracks with the
\* start offsets of its INDEX 01 lines, 426, 240960 and 453933 ms, and the
\* end offsets 240960, 453933 and 0 ms.
C10_ExampleSheet ==
    (ReadingExample /\ Returned) =>
        /\ ret
        /\ Len(cue.m_tracks) = 3
        /\ StartTimes = <<426, 240960, 453933>>
        /\ EndTimes = <<240960, 453933, 0>>

C10_Witness ==
    /\ ReadingExample
    /\ Succeeded
    /\ Len(consumed) = Len(ExampleSheet)


(***************************************************************************)
(* The path of a file named in the sheet of ParseFile.                     *)
(***************************************************************************)
\* the entries of the sheet's directory that are `path` but for the case of
\* its letters
MatchingEntries(path) ==
    {i \in 1..Len(DirectoryItems) : EqualsNoCase(DirectoryItems[i], path)}

Min(S) == CHOOSE x \in S : \A y \in S : x <= y

\* the file named in the sheet can be resolved: it exists under the sheet's
\* directory, or an entry of the directory matches it
Resolvable(name) ==
    FileExists(StoredName(name)) \/ MatchingEntries(StoredName(name)) # {}

\* the path the resolution is to produce for a resolvable file
ResolvedName(name) ==
    IF FileExists(StoredName(name))
    THEN StoredName(name)
    ELSE DirectoryItems[Min(MatchingEntries(StoredName(name)))]

\* the file named before the k-th TRACK line of the input
FileNamedForTrack(k) == FileNamedWithin(consumed, TrackLineAt(consumed, k))

\* C11: in a sheet parsed from a file, a named file that exists under the
\* sheet's directory is stored on its tracks as that path; one that does not
\* exist while an entry of the directory matches it without regard to case
\* resolves, and the path stored on its tracks is the first matching entry.
C11_PathOfMatchingEntry ==
    parse.strFile # <<>> =>
        \A k \in 1..Len(cue.m_tracks) :
            (FileNamedForTrack(k) # <<>> /\ Resolvable(FileNamedForTrack(k)))
                => /\ ResolvePath(FileNamedForTrack(k), parse.strFile).found
                   /\ cue.m_tracks[k].strFile = ResolvedName(FileNamedForTrack(k))


\* the positions in h of the FILE lines that name a file the resolution does
\* not find
UnresolvedPositions(h) ==
    {k \in FilePositions(h, Len(h)) :
        /\ FileNameWritten[h[k]] # <<>>
        /\ ~Resolvable(FileNameWritten[h[k]])}

\* a FILE line of the table that names a file found as it is written
ResolvableFileLine ==
    CHOOSE i \in 1..NumLines :
        IsFileLine(i) /\ FileNameWritten[i] # <<>> /\ FileExists(StoredName(FileNameWritten[i]))

\* h with a file that is found in the place of every file that is not
AsResolved(h) ==
    [k \in 1..Len(h) |-> IF k \in UnresolvedPositions(h) THEN ResolvableFileLine ELSE h[k]]

\* the outcome of Parse as the lines of h decide it
ExpectedSuccess(h) ==
    /\ reader.ready
    /\ \A k \in 1..Len(h) : ~AbortingIndex(h, k)
    /\ NumTrackLines(h) >= 1

\* the parse ended at a line: a branch returned failure or threw
EndedAtLine == log \in {LogCrossFile, LogMangledTime, OutOfRange}

\* C12: in a sheet parsed from a file, a FILE line naming a file that is
\* neither found nor matched by a directory entry does not end the parse;
\* the tracks opened after it carry a path that names the file; and the
\* parse returns what it returns for the same lines with a file that is
\* found in its place.
C12_UnresolvedFileKept ==
    parse.strFile # <<>> =>
        /\ (consumed # <<>> /\ Len(consumed) \in UnresolvedPositions(consumed))
               => pc # "threw" /\ ~EndedAtLine
        /\ \A k \in 1..Len(cue.m_tracks) :
               (FileNamedForTrack(k) # <<>> /\ ~Resolvable(FileNamedForTrack(k)))
                   => /\ cue.m_tracks[k].strFile # <<>>
                      /\ GetFileName(cue.m_tracks[k].strFile) = FileNamedForTrack(k)
        /\ (Returned /\ UnresolvedPositions(consumed) # {})
               => (ret <=> ExpectedSuccess(AsResolved(consumed)))

C12_Witness ==
    /\ parse.strFile # <<>>
    /\ Succeeded
    /\ \E k \in 1..Len(cue.m_tracks) :
           /\ FileNamedForTrack(k) # <<>>
           /\ ~Resolvable(FileNamedForTrack(k))
           /\ cue.m_tracks[k].iStartTime > 0


(***************************************************************************)
(* The lines of a content, as its characters say them.                     *)
(***************************************************************************)
IsLineBreak(ch) == ch = "\r" \/ ch = "\n"

\* the positions of the line breaks of data, and the position after its end
BreakPositions(data) ==
    {i \in 1..Len(data) : IsLineBreak(data[i])} \cup {Len(data) + 1}

\* the segment of data that ends before position b: from after the line
\* break before it, or from the start
SegmentBefore(data, b) ==
    LET before == {i \in BreakPositions(data) : i < b}
    IN  SubSeq(data, IF before = {} THEN 1 ELSE Max(before) + 1, b - 1)

IsBlank(s) == \A i \in 1..Len(s) : IsSpace(s[i])

\* s without the white space around it
Trimmed(s) ==
    IF IsBlank(s)
    THEN <<>>
    ELSE SubSeq(s, Min({i \in 1..Len(s) : ~IsSpace(s[i])}),
                   Max({i \in 1..Len(s) : ~IsSpace(s[i])}))

\* the ends of the segments that are not blank, in a set
LineEnds(data) ==
    {b \in BreakPositions(data) : ~IsBlank(SegmentBefore(data, b))}

\* the n-th smallest member of a set of numbers
Nth(S, n) == CHOOSE x \in S : Cardinality({y \in S : y <= x}) = n

\* the segments of data that are not blank, trimmed, in their order
ExpectedLines(data) ==
    [n \in 1..Cardinality(LineEnds(data)) |->
        Trimmed(SegmentBefore(data, Nth(LineEnds(data), n)))]

\* C13: the lines the calls of ReadLine on a content returned so far are the
\* first segments of the content that are not blank, split at '\r' and '\n',
\* each trimmed, in their order; every call before the end returned one; no
\* line returned is empty or only white space; when the end was reported all
\* of them were returned, and no later call returned a line.
C13_LinesOfBuffer ==
    /\ Len(delivered) <= Len(ExpectedLines(m_data))
    /\ delivered = SubSeq(ExpectedLines(m_data), 1, Len(delivered))
    /\ \A n \in 1..Len(delivered) : delivered[n] # <<>> /\ ~IsBlank(delivered[n])
    /\ ~atEnd => Len(delivered) = calls
    /\ atEnd => delivered = ExpectedLines(m_data)
    /\ ~afterEnd

C13_Witness ==
    /\ atEnd
    /\ calls >= Len(delivered) + 2
    /\ Len(delivered) = 2
    /\ \E i \in 1..(Len(m_data) - 1) : m_data[i] = "\r" /\ m_data[i + 1] = "\n"
    /\ \E b \in LineEnds(m_data) :
           Trimmed(SegmentBefore(m_data, b)) # SegmentBefore(m_data, b)


(***************************************************************************)
(* The records and items of the tracks.                                    *)
(***************************************************************************)
\* secs is ms milliseconds in whole seconds, rounded
IsRounded(ms, secs) == ms - 500 <= 1000 * secs /\ 1000 * secs <= ms + 500

\* C14: GetSongs yields one record for each track, in the order of the
\* tracks, with the file, the start and the end offset of the track; its
\* duration is end - start milliseconds rounded to whole seconds when the
\* end offset is not 0, and 0 when it is; from 238960 to 240960 it is 2.
C14_RecordsAndDurations ==
    api = "GetSongs" =>
        /\ Len(songs) = Len(cue.m_tracks)
        /\ \A k \in 1..Len(songs) :
               LET track == cue.m_tracks[k]
               IN  /\ songs[k].strFileName = track.strFile
                   /\ songs[k].iTrack % 65536 = track.iTrackNumber
                   /\ songs[k].iStartOffset = track.iStartTime
                   /\ songs[k].iEndOffset = track.iEndTime
                   /\ track.iEndTime # 0 =>
                          IsRounded(track.iEndTime - track.iStartTime, songs[k].iDuration)
                   /\ track.iEndTime = 0 => songs[k].iDuration = 0
                   /\ (track.iStartTime = 238960 /\ track.iEndTime = 240960)
                          => songs[k].iDuration = 2

C14_Witness ==
    /\ api = "GetSongs"
    /\ Len(songs) = 2
    /\ songs[1].iStartOffset = 238960
    /\ songs[1].iEndOffset = 240960
    /\ songs[1].iDuration = 2
    /\ songs[2].iStartOffset = 240960
    /\ songs[2].iDuration = 0


\* the tracks of the file LoadTracks was asked about, by position
MatchingTracks ==
    {k \in 1..Len(cue.m_tracks) : cue.m_tracks[k].strFile = fileItem.path}

\* the record GetSongs yields for the n-th of them
SheetRecord(n) == GetSongs(cue)[Nth(MatchingTracks, n)]

\* LoadTracks was called and added an item for each track of the file
Loaded == api = "LoadTracks" /\ Len(scannedItems) = Cardinality(MatchingTracks)

\* C15: in the record of an item LoadTracks adds, each of album, album
\* artist, genre and artist description is the tag's when the tag is loaded
\* and the field of the sheet's record is empty, and in every other case the
\* field of the sheet's record: one that is not empty is kept, and with a tag
\* that is not loaded all four are kept.
C15_TagFillsEmptyFields ==
    api = "LoadTracks" =>
        /\ Loaded
        /\ \A n \in 1..Len(scannedItems) :
               LET s == SheetRecord(n)
                   m == scannedItems[n].song
                   tag == fileItem.tag
               IN  /\ m.strAlbum = IF tag.loaded /\ s.strAlbum = <<>>
                                   THEN tag.album ELSE s.strAlbum
                   /\ m.albumArtist = IF tag.loaded /\ s.albumArtist = <<>>
                                      THEN tag.albumArtist ELSE s.albumArtist
                   /\ m.genre = IF tag.loaded /\ s.genre = <<>>
                                THEN tag.genre ELSE s.genre
                   /\ m.strArtistDesc = IF tag.loaded /\ s.strArtistDesc = <<>>
                                        THEN tag.artistString ELSE s.strArtistDesc

C15_Witness ==
    /\ Loaded
    /\ fileItem.tag.loaded
    /\ \E n \in 1..Len(scannedItems) :
           /\ SheetRecord(n).strAlbum # <<>>
           /\ fileItem.tag.album # <<>>
           /\ scannedItems[n].song.strAlbum = SheetRecord(n).strAlbum
           /\ SheetRecord(n).genre = <<>>
           /\ scannedItems[n].song.genre = fileItem.tag.genre
           /\ fileItem.tag.genre # <<>>

\* C16: the record of an item LoadTracks adds has, when the sheet's record
\* has duration 0 and the tag reports a total duration above 0, the tag's
\* duration less the start offset of the record, in whole seconds; in every
\* other case it has the duration of the sheet's record.
C16_DurationFromTag ==
    api = "LoadTracks" =>
        /\ Loaded
        /\ \A n \in 1..Len(scannedItems) :
               LET s == SheetRecord(n)
                   m == scannedItems[n].song
                   tag == fileItem.tag
               IN  IF s.iDuration = 0 /\ tag.duration > 0
                   THEN IsRounded(tag.duration * 1000 - s.iStartOffset, m.iDuration)
                   ELSE m.iDuration = s.iDuration

C16_Witness ==
    /\ Loaded
    /\ Len(scannedItems) >= 2
    /\ SheetRecord(1).iDuration > 0
    /\ scannedItems[1].song.iDuration = SheetRecord(1).iDuration
    /\ \E n \in 2..Len(scannedItems) :
           /\ SheetRecord(n).iDuration = 0
           /\ SheetRecord(n).iStartOffset > 0
           /\ fileItem.tag.duration > 0
           /\ scannedItems[n].song.iDuration > 0
           /\ scannedItems[n].song.iDuration < fileItem.tag.duration

\* the tag names an album, an artist and a title
HasAlbumArtistTitle(tag) == tag.album # <<>> /\ tag.artist # <<>> /\ tag.title # <<>>

\* C17, as claimed: the item of a track is built with the tag exactly when
\* IsOneFilePerTrack() is true and the tag names album, artist and title.
C17_TagPrecedenceAsClaimed ==
    api = "LoadTracks" =>
        \A n \in 1..Len(scannedItems) :
            scannedItems[n].music = "tag"
                <=> (IsOneFilePerTrack /\ HasAlbumArtistTitle(fileItem.tag))

\* C17: the item of a track is built with the tag exactly when the tag is
\* loaded, IsOneFilePerTrack() is true and the tag names album, artist and
\* title; in every other case it is built from the record alone.
C17_TagPrecedence ==
    api = "LoadTracks" =>
        \A n \in 1..Len(scannedItems) :
            /\ scannedItems[n].music \in {"tag", "song"}
            /\ scannedItems[n].music = "tag"
                   <=> /\ fileItem.tag.loaded
                       /\ IsOneFilePerTrack
                       /\ HasAlbumArtistTitle(fileItem.tag)
            /\ scannedItems[n].music = "tag" => scannedItems[n].tag = fileItem.tag

C17_Witness ==
    /\ api = "LoadTracks"
    /\ NumFileLines(consumed) = 2
    /\ NumTrackLines(consumed) = 2
    /\ Len(scannedItems) = 1
    /\ scannedItems[1].music = "tag"

\* C18: LoadTracks adds one item for each track whose file is the path of
\* the file it was asked about, in the order of the tracks, and none for
\* another track; it returns false exactly when no track is of that file.
C18_ItemsOfTheFile ==
    api = "LoadTracks" =>
        /\ Len(scannedItems) = Cardinality(MatchingTracks)
        /\ \A n \in 1..Len(scannedItems) :
               LET track == cue.m_tracks[Nth(MatchingTracks, n)]
               IN  /\ scannedItems[n].path = fileItem.path
                   /\ scannedItems[n].song.iTrack % 65536 = track.iTrackNumber
                   /\ scannedItems[n].song.iStartOffset = track.iStartTime
                   /\ scannedItems[n].song.iEndOffset = track.iEndTime
        /\ loadRet <=> MatchingTracks # {}

C18_Witness ==
    /\ api = "LoadTracks"
    /\ loadRet
    /\ Len(scannedItems) >= 1
    /\ Len(scannedItems) < Len(cue.m_tracks)
    /\ cue.m_tracks[1].strFile # fileItem.path


(***************************************************************************)
(* Titles and performers, as the lines of the input say them.              *)
(***************************************************************************)
IsTitleLine(i) == i \in TitleLineSet

IsPerformerLine(i) == i \in PerformerLineSet

\* the text of the last line of a kind among lines from..to of h, the empty
\* text when there is none
LastTextIn(h, from, to, IsKind(_)) ==
    LET S == {k \in from..to : IsKind(h[k])}
    IN  IF S = {} THEN <<>> ELSE TextWritten[h[Max(S)]]

\* the last line before the first TRACK line of h
AlbumEnd(h) ==
    IF NumTrackLines(h) = 0 THEN Len(h) ELSE TrackLineAt(h, 1) - 1

\* the last line before the TRACK line after the k-th
SectionEnd(h, k) ==
    IF k < NumTrackLines(h) THEN TrackLineAt(h, k + 1) - 1 ELSE Len(h)

\* C19: the album title and performer are those of the last TITLE and
\* PERFORMER line before the first TRACK line; the title and performer of a
\* track are those of the last TITLE and PERFORMER line between its TRACK
\* line and the next. So a TITLE or PERFORMER line after a TRACK line sets
\* the most recently opened track's field and leaves the album's and every
\* earlier track's.
C19_TitlesAndPerformers ==
    /\ cue.m_strAlbum = LastTextIn(consumed, 1, AlbumEnd(consumed), IsTitleLine)
    /\ cue.m_strArtist = LastTextIn(consumed, 1, AlbumEnd(consumed), IsPerformerLine)
    /\ Len(cue.m_tracks) = NumTrackLines(consumed)
    /\ \A k \in 1..Len(cue.m_tracks) :
           /\ cue.m_tracks[k].strTitle =
                  LastTextIn(consumed, TrackLineAt(consumed, k),
                             SectionEnd(consumed, k), IsTitleLine)
           /\ cue.m_tracks[k].strArtist =
                  LastTextIn(consumed, TrackLineAt(consumed, k),
                             SectionEnd(consumed, k), IsPerformerLine)

C19_Witness ==
    /\ pc = "parsing"
    /\ Len(cue.m_tracks) = 2
    /\ IsTitleLine(consumed[Len(consumed)])
    /\ cue.m_strAlbum # <<>>
    /\ cue.m_tracks[1].strTitle # <<>>
    /\ cue.m_tracks[2].strTitle # <<>>
    /\ cue.m_tracks[2].strTitle # cue.m_tracks[1].strTitle
    /\ cue.m_tracks[2].strTitle # cue.m_strAlbum
    /\ cue.m_tracks[2].strArtist = <<>>
    /\ cue.m_strArtist # <<>>


(***************************************************************************)
(* The lines no branch acts on.                                            *)
(***************************************************************************)
\* the keywords of the branches
Keywords ==
    {KeyIndex01, KeyTitle, KeyPerformer, KeyTrack, KeyDiscNumber, KeyFile, KeyDate,
     KeyGenre, KeyAlbumGain, KeyAlbumPeak, KeyTrackGain, KeyTrackPeak}

\* an INDEX line that is not an INDEX 01 line
IsOtherIndexLine(i) ==
    /\ StartsWithNoCase(CueLines[i], SubSeq(KeyIndex01, 1, 5))
    /\ ~StartsWithNoCase(CueLines[i], KeyIndex01)

IsTrackGainLine(i) ==
    \/ StartsWithNoCase(CueLines[i], KeyTrackGain)
    \/ StartsWithNoCase(CueLines[i], KeyTrackPeak)

IsUnrecognizedLine(i) == \A key \in Keywords : ~StartsWithNoCase(CueLines[i], key)

\* line i read after the lines of h is one the parser is to pass over
PassedOver(h, i) ==
    \/ IsOtherIndexLine(i)
    \/ IsTrackGainLine(i) /\ NumTrackLines(h) = 0
    \/ IsUnrecognizedLine(i)

SansFile(t) == [t EXCEPT !.strFile = <<>>]

\* a document but for its tracks
SansTracks(c) == [c EXCEPT !.m_tracks = <<>>]

\* the file paths of the tracks of a document
TrackFiles(c) == {c.m_tracks[k].strFile : k \in 1..Len(c.m_tracks)}

\* the entries the last call of GetMediaFiles added to its list
Listed == SubSeq(mediaFiles, mediaGiven + 1, Len(mediaFiles))

\* C21: after UpdateMediaFile(old, new) the tracks whose path was old, and
\* only those, have the path new; every other path, every other field of
\* every track, the album fields and IsOneFilePerTrack are as before.  What
\* GetMediaFiles adds to its list is each distinct path of the tracks once,
\* without old after a call with old # new.
C21_RewrittenPaths ==
    /\ updates > 0 =>
           /\ Len(cue.m_tracks) = Len(cueBefore.m_tracks)
           /\ \A k \in 1..Len(cue.m_tracks) :
                  /\ cue.m_tracks[k].strFile =
                         IF cueBefore.m_tracks[k].strFile = oldMediaFile
                         THEN mediaFile
                         ELSE cueBefore.m_tracks[k].strFile
                  /\ SansFile(cue.m_tracks[k]) = SansFile(cueBefore.m_tracks[k])
           /\ SansTracks(cue) = SansTracks(cueBefore)
    /\ api = "GetMediaFiles" =>
           /\ \A i \in 1..Len(Listed) : Listed[i] \in TrackFiles(cue)
           /\ \A f \in TrackFiles(cue) :
                  Cardinality({i \in 1..Len(Listed) : Listed[i] = f}) = 1
           /\ (updates > 0 /\ oldMediaFile # mediaFile) =>
                  \A i \in 1..Len(Listed) : Listed[i] # oldMediaFile

C21_Witness ==
    /\ api = "GetMediaFiles"
    /\ updates > 0
    /\ oldMediaFile # mediaFile
    /\ oldMediaFile \in TrackFiles(cueBefore)
    /\ mediaFile \notin TrackFiles(cueBefore)
    /\ Cardinality(TrackFiles(cueBefore)) = 2
    /\ Len(Listed) = 2
    /\ mediaGiven > 0
    /\ cue.m_bOneFilePerTrack


(***************************************************************************)
(* A call on a used document and the same call on a new one.               *)
(***************************************************************************)
\* the loop of Parse over the lines of h, from document c and locals p, up
\* to the first line that ends the call
RECURSIVE RunLines(_, _, _)
RunLines(c, p, h) ==
    IF h = <<>>
    THEN [cue |-> c, parse |-> p, fail |-> ""]
    ELSE LET r == Dispatch(c, p, CueLines[Head(h)])
         IN  IF r.fail # "" THEN r ELSE RunLines(r.cue, r.parse, Tail(h))

\* what a caller can observe of a document c after a call that returned r
Observed(c, r) ==
    [success |-> r,
     album |-> c.m_strAlbum,
     artist |-> c.m_strArtist,
     genre |-> c.m_strGenre,
     year |-> c.m_iYear,
     discNumber |-> c.m_iDiscNumber,
     albumReplayGain |-> c.m_albumReplayGain,
     tracks |-> c.m_tracks,
     isLoaded |-> c.m_tracks # <<>>,
     isOneFilePerTrack |-> c.m_bOneFilePerTrack]

\* what the last call would have given on a newly constructed document:
\* with the same reader, the same path and the same lines
OnNewDocument ==
    IF ~reader.ready
    THEN Observed(Clear(NewDocument), FALSE)
    ELSE LET r == RunLines(Clear(NewDocument), ParseLocals(parse.strFile), consumed)
         IN  IF r.fail # ""
             THEN Observed(r.cue, FALSE)
             ELSE Observed(Terminate(r.cue, r.parse), r.parse.totalTracks >= 0)

\* C22: when a call of ParseFile or ParseTag has returned, whatever calls
\* the document has seen before, the value returned, the album fields, the
\* tracks, IsLoaded and IsOneFilePerTrack are those the same input gives on
\* a newly constructed document.
C22_ParseIndependent ==
    pc = "done" => Observed(cue, ret) = OnNewDocument

\* the same but for IsOneFilePerTrack
C22_ButForOneFilePerTrack ==
    pc = "done" =>
        [Observed(cue, ret) EXCEPT !.isOneFilePerTrack = FALSE]
            = [OnNewDocument EXCEPT !.isOneFilePerTrack = FALSE]

====
